---- MODULE Spec2Model ----
(***************************************************************************)
(* A state-machine model of the CUDA runtime module                        *)
(* (src/src/runtime/cuda/cuda_module.cc) and of the NVSHMEM bootstrap      *)
(* (src/unnamed/part_001).                                                 *)
(*                                                                         *)
(* Spec      host threads calling one bound kernel dispatcher              *)
(*           (CUDAWrappedFunc) and the global-barrier primitive            *)
(*           (CUDAPrepGlobalBarrier) of one CUDAModuleNode.                *)
(* SpecSeq   the same machine driven by a single thread.                   *)
(* SpecBoot  one worker process minting a unique id and joining the        *)
(*           NVSHMEM team (InitNVSHMEMUID, InitNVSHMEM).                   *)
(* SpecFile  one module saved to and loaded from files (SaveToFile,        *)
(*           CUDAModuleLoadFile).                                          *)
(* SpecLive  Spec under fair scheduling of the threads and of mutex_.      *)
(* SpecJoin  one host thread's module calls interleaved with the one       *)
(*           InitNVSHMEM session of the process.                           *)
(*                                                                         *)
(* LOG(FATAL), ICHECK, CHECK_EQ and CUDA_DRIVER_CALL raise an exception:   *)
(* the call is abandoned, destructors of locals run (std::lock_guard       *)
(* releases mutex_), and the thread may call again.                        *)
(***************************************************************************)
EXTENDS Integers, Sequences, FiniteSets, TLC

\* ------------------------------------------------------------------ bounds
\* Invocations started in one run of Spec, and in one run of SpecSeq.
MaxCalls == 3
MaxSeqCalls == 3
\* Invocations started in one run of SpecLive.
MaxLiveCalls == 2
\* Invocations started in one run of SpecJoin.
MaxJoinCalls == 2

\* Host threads, and the device indices cudaGetDevice hands them.
Threads == {1, 2}
Devices == {0, 1}

\* --------------------------------------------------------- driver constants
CUDA_SUCCESS == 0
CUDA_ERROR_DEINITIALIZED == 4
\* cuLaunchKernel's results: success, the teardown code, and two other driver
\* codes (CUDA_ERROR_INVALID_VALUE, CUDA_ERROR_LAUNCH_FAILED).
LaunchResults == {CUDA_SUCCESS, CUDA_ERROR_DEINITIALIZED, 1, 719}
\* The results the concurrent runs draw from: the launch succeeds or fails.
RaceLaunchResults == {CUDA_SUCCESS, 719}
\* A driver call that is only tested against CUDA_SUCCESS: success or failure.
DriverResults == {CUDA_SUCCESS, 1}

\* wl.dyn_shmem_size >= (48 << 10)
ShmemThreshold == 48 * 1024
NeedsShmemRaise(dyn_shmem_size) == dyn_shmem_size >= ShmemThreshold

\* ThreadWorkLoad values handed out by launch_param_config_.Extract(args).
WorkLoads ==
  { [grid_dim |-> <<4, 1, 1>>, block_dim |-> <<32, 1, 1>>, dyn_shmem_size |-> 0],
    [grid_dim |-> <<2, 1, 1>>, block_dim |-> <<64, 1, 1>>, dyn_shmem_size |-> 49152],
    [grid_dim |-> <<1, 2, 1>>, block_dim |-> <<128, 1, 1>>, dyn_shmem_size |-> 49153] }
\* The workloads the concurrent runs draw from: below and above the threshold.
RaceWorkLoads == {w \in WorkLoads : w.dyn_shmem_size # ShmemThreshold}
NoWorkLoad == [grid_dim |-> <<0, 0, 0>>, block_dim |-> <<0, 0, 0>>, dyn_shmem_size |-> 0]

\* The modules CUDAModuleCreate is called with: (data, fmt, fmap, cuda_source).
KernelInfo == [arg_types |-> <<"handle", "handle", "handle">>,
               launch_param_tags |-> <<"blockIdx.x", "threadIdx.x">>]
ModuleConfigs ==
  { [data |-> "PTX_TEXT", fmt |-> "ptx", source |-> ""],
    [data |-> "CUBIN_BYTES", fmt |-> "cubin", source |-> ""],
    [data |-> "CUBIN_BYTES", fmt |-> "cubin", source |-> "CU_SOURCE"] }
\* The module the concurrent runs share.
RaceModuleConfigs == {m \in ModuleConfigs : m.fmt = "cubin" /\ m.source # ""}

\* CUmodule: nullptr, or the handle made by the k-th load into the device.
NullModule == 0
\* CUfunction: nullptr, or the kernel `name` of module handle `mod`.
NullFunc == [mod |-> 0, name |-> ""]
\* CUdeviceptr: 0, or the address of the barrier word in module handle `mod`.
NullPtr == 0

\* sizeof(unsigned)
BarrierBytes == 4

\* ---------------------------------------------------- bootstrap constants
\* The number of internal bytes of nvshmemx_uniqueid_t (nvshmemx.h).
UNIQUEID_PADDING == 124
\* InitNVSHMEM calls in one run of SpecBoot.
MaxJoins == 2

\* Device{device_type, device_id}
Device(type, id) == [device_type |-> type, device_id |-> id]
\* The device no cudaSetDevice of InitNVSHMEM has touched.
NoDevice == -1
\* worker == nullptr
NoWorker == [present |-> FALSE, worker_id |-> 0, default_device |-> Device("kDLCPU", 0)]
\* The worker contexts InitNVSHMEM may run in: none, or a DiscoWorker with its
\* rank and default device (a fresh DiscoWorker holds Device{kDLCPU, 0}).
WorkerContexts ==
  {NoWorker} \cup
  { [present |-> TRUE, worker_id |-> w, default_device |-> d] :
      w \in {0, 1},
      d \in {Device("kDLCPU", 0), Device("kDLCUDA", 0), Device("kDLCUDA", 1),
             Device("kDLROCM", 0)} }

NoBootArgs == [uid_64 |-> <<>>, num_workers |-> 0, worker_id_start |-> 0]
NoBootLocal == [worker_id |-> 0, uid |-> [version |-> 0, internal |-> <<>>],
                mype_node |-> -1]
NoBootOut == [status |-> "none", at |-> ""]

\* --------------------------------------------------------- file constants
\* SaveToFile and load calls in one run of SpecFile.
MaxFileOps == 2

\* File names, as the pieces between and including their dots.
FileNames ==
  { <<"m", ".", "ptx">>, <<"m", ".", "cubin">>, <<"m", ".", "cu">>, <<"m">> }
\* The format argument: absent, or a format name.
FormatHints == {"", "ptx", "cubin", "cu"}

\* The index of the last "." of a file name, 0 when it has none
\* (file_name.find_last_of(".")).
LastDot(file_name) ==
  LET dots == {i \in DOMAIN file_name : file_name[i] = "."} IN
  IF dots = {} THEN 0 ELSE CHOOSE i \in dots : \A j \in dots : j <= i

\* GetFileFormat: the format argument, or when it is empty what follows the
\* last dot of the file name, or "" when the name has no dot.
GetFileFormat(file_name, format) ==
  IF format = ""
    THEN IF LastDot(file_name) # 0
           THEN IF LastDot(file_name) < Len(file_name)
                  THEN file_name[Len(file_name)]
                  ELSE ""
           ELSE ""
    ELSE format

\* GetMetaFilePath: the name up to its last dot, then ".tvm_meta.json".
GetMetaFilePath(file_name) ==
  IF LastDot(file_name) # 0
    THEN SubSeq(file_name, 1, LastDot(file_name) - 1) \o <<".tvm_meta.json">>
    ELSE file_name \o <<".tvm_meta.json">>

AllPaths == FileNames \cup {GetMetaFilePath(f) : f \in FileNames}

\* A kernel-info map with no kernel.
EmptyMap == [k \in {} |-> KernelInfo]
\* A path with no file, and the files an earlier, other module left behind.
NoFile == [kind |-> "none", bytes |-> "", func_info |-> EmptyMap]
StaleBinary == [kind |-> "binary", bytes |-> "STALE_BYTES", func_info |-> EmptyMap]
StaleMeta ==
  [kind |-> "meta", bytes |-> "",
   func_info |-> [k \in {"old_kernel"} |-> [arg_types |-> <<"handle">>,
                                            launch_param_tags |-> <<>>]]]

\* SaveBinaryToFile / LoadBinaryFromFile: the bytes, as they are.
BinaryFile(bytes) == [kind |-> "binary", bytes |-> bytes, func_info |-> EmptyMap]
\* SaveMetaDataToFile / LoadMetaDataFromFile: the map under "func_info".
MetaFile(fmap) == [kind |-> "meta", bytes |-> "", func_info |-> fmap]

NoModule == [data |-> "", fmt |-> "", fmap |-> EmptyMap, cuda_source |-> ""]

VARIABLES
  data_, fmt_, fmap_, cuda_source_,  \* CUDAModuleNode: blob, format, info, source
  module_,                           \* CUDAModuleNode::module_, per device
  mutex_,                            \* CUDAModuleNode::mutex_: 0 free, else owner
  fcache_,                           \* CUDAWrappedFunc::fcache_, per device
  pcache_,                           \* CUDAPrepGlobalBarrier::pcache_, per device
  hook_registered,                   \* "runtime.nvshmem.cumodule_init" is registered
  nvshmem_status,                    \* nvshmemx_init_status()
  nvshmem_modules,                   \* module handles nvshmemx_cumodule_init accepted
  hook_calls,                        \* per device: the handles the hook was called with
  pc, dev, wl, ret, out, did,        \* per thread: position, locals, result, calls made
  calls,                             \* invocations started so far
  maxcalls,                          \* invocations this run may start
  nLoad,                             \* per device: successful cuModuleLoadData calls
  nResolve,                          \* per device: cuModuleGetFunction calls
  nResolveFail,                      \* per device: those that failed
  resolvedFrom,                      \* per device: module handles symbols were resolved from
  configCalls,                       \* per device: cuFuncSetAttribute calls (func, size)
  memsets,                           \* per device: cuMemsetD32 calls (addr, by)
  worker,                            \* ThreadLocalDiscoWorker::Get()->worker
  cur_device,                        \* the joining thread's active device (cudaSetDevice)
  uid_minted,                        \* what InitNVSHMEMUID returned last
  fabric_join,                       \* the joins made: (rank, count, uid)
  boot_pc, boot_args, boot_local,    \* InitNVSHMEM: position, arguments, locals
  boot_out,                          \* InitNVSHMEM: how the last call ended
  boot_log,                          \* the device and fabric calls, default-device
                                     \* writes and LOG_INFO lines made, in order
  joins,                             \* InitNVSHMEM calls started so far
  files,                             \* the file system: path -> content
  fs_log                             \* the SaveToFile and load calls made, in order

vars == <<data_, fmt_, fmap_, cuda_source_, module_, mutex_, fcache_, pcache_,
          hook_registered, nvshmem_status, nvshmem_modules, hook_calls,
          pc, dev, wl, ret, out, did, calls, maxcalls, nLoad, nResolve, nResolveFail,
          resolvedFrom, configCalls, memsets, worker, cur_device, uid_minted, fabric_join,
          boot_pc, boot_args, boot_local, boot_out, boot_log, joins, files, fs_log>>
filevars == <<files, fs_log>>
bootvars == <<worker, cur_device, uid_minted, fabric_join, boot_pc, boot_args,
              boot_local, boot_out, boot_log, joins>>
\* What no step of the dispatcher or of the barrier primitive writes.
modvars == <<data_, fmt_, fmap_, cuda_source_, hook_registered, nvshmem_status,
             maxcalls, bootvars, filevars>>

\* f.Init(this, sptr_to_self, name, ...): the one kernel the dispatcher is bound to.
func_name_ == "add"

\* What GetFunc or GetGlobal handed back to its caller, before it is stored.
NoRet == [func |-> NullFunc, ptr |-> NullPtr]

NoDiag == [err |-> -1, grid |-> <<>>, block |-> <<>>, tail |-> <<>>]
NoOut == [status |-> "none", at |-> "", result |-> CUDA_SUCCESS, diag |-> NoDiag]

\* The handle cuModuleGetFunction returns for func_name in module handle h.
DriverFunction(h, name) == [mod |-> h, name |-> name]
\* The address cuModuleGetGlobal returns for the barrier word of module handle h.
DriverGlobal(h) == 4096 * h

\* ------------------------------------------------------------------- Init
InitModule(configs) ==
  /\ \E m \in configs :
       /\ data_ = m.data
       /\ fmt_ = m.fmt
       /\ cuda_source_ = m.source
  /\ fmap_ = [k \in {func_name_} |-> KernelInfo]
  /\ module_ = [d \in Devices |-> NullModule]
  /\ mutex_ = 0

InitThreads(hooks) ==
  /\ fcache_ = [d \in Devices |-> NullFunc]
  /\ pcache_ = [d \in Devices |-> NullPtr]
  /\ \E h \in hooks :
       /\ hook_registered = h[1]
       /\ nvshmem_status = h[2]
  /\ nvshmem_modules = {}
  /\ hook_calls = [d \in Devices |-> <<>>]
  /\ pc = [t \in Threads |-> "idle"]
  /\ dev = [t \in Threads |-> 0]
  /\ wl = [t \in Threads |-> NoWorkLoad]
  /\ ret = [t \in Threads |-> NoRet]
  /\ out = [t \in Threads |-> NoOut]
  /\ did = [t \in Threads |-> {}]
  /\ calls = 0
  /\ nLoad = [d \in Devices |-> 0]
  /\ nResolve = [d \in Devices |-> 0]
  /\ nResolveFail = [d \in Devices |-> 0]
  /\ resolvedFrom = [d \in Devices |-> {}]
  /\ configCalls = [d \in Devices |-> <<>>]
  /\ memsets = [d \in Devices |-> <<>>]

\* Whether the post-load hook is registered, and NVSHMEM's status, at the start.
HookConfigs == {<<FALSE, "NOT_INITIALIZED">>, <<TRUE, "NOT_INITIALIZED">>,
                <<TRUE, "IS_INITIALIZED">>}

\* No bootstrap is under way.
InitNoBoot ==
  /\ worker = NoWorker
  /\ cur_device = NoDevice
  /\ uid_minted = <<>>
  /\ fabric_join = <<>>
  /\ boot_pc = "idle"
  /\ boot_args = NoBootArgs
  /\ boot_local = NoBootLocal
  /\ boot_out = NoBootOut
  /\ boot_log = <<>>
  /\ joins = 0

\* No file is there and none was saved or loaded.
InitNoFiles ==
  /\ files = [p \in AllPaths |-> NoFile]
  /\ fs_log = <<>>

Init ==
  /\ InitModule(RaceModuleConfigs) /\ InitThreads(HookConfigs)
  /\ maxcalls = MaxCalls
  /\ InitNoBoot /\ InitNoFiles
InitSeq ==
  /\ InitModule(ModuleConfigs) /\ InitThreads(HookConfigs)
  /\ maxcalls = MaxSeqCalls
  /\ InitNoBoot /\ InitNoFiles

\* ---------------------------------------------------------------- helpers
\* An exception leaves the call: the thread is idle again and holds what failed.
Throw(t, at, result, diag) ==
  /\ pc' = [pc EXCEPT ![t] = "idle"]
  /\ out' = [out EXCEPT ![t] = [status |-> "fatal", at |-> at, result |-> result,
                                diag |-> diag]]
  /\ wl' = [wl EXCEPT ![t] = NoWorkLoad]
  /\ ret' = [ret EXCEPT ![t] = NoRet]

Return(t) ==
  /\ pc' = [pc EXCEPT ![t] = "idle"]
  /\ out' = [out EXCEPT ![t] = [status |-> "ok", at |-> "", result |-> CUDA_SUCCESS,
                                diag |-> NoDiag]]
  /\ wl' = [wl EXCEPT ![t] = NoWorkLoad]
  /\ ret' = [ret EXCEPT ![t] = NoRet]

Goto(t, to) == pc' = [pc EXCEPT ![t] = to]
Did(t, call) == did' = [did EXCEPT ![t] = @ \cup {call}]

hooked == <<nvshmem_modules, hook_calls>>
counters == <<nLoad, nResolve, nResolveFail, resolvedFrom, configCalls, memsets>>
caches == <<fcache_, pcache_>>

\* ------------------------------------------- CUDAModuleNode: the module cache
\* std::lock_guard<std::mutex> lock(mutex_), entered from GetFunc or GetGlobal.
LockGuard(t, to) ==
  /\ mutex_ = 0
  /\ mutex_' = t
  /\ Goto(t, to)
  /\ UNCHANGED <<modvars, module_, caches, hooked, dev, wl, ret, out, did,
                 calls, counters>>

\* A guard that an exception leaves locked.
HeldOnThrow(t) == t
\* ~lock_guard() as an exception unwinds GetFunc or GetGlobal: mutex_ is free.
UnlockOnThrow(t) == 0

\* A module cache that loads without looking at the slot.
SlotIsEmptyNoRecheck(d) == TRUE
\* module_[device_id] == nullptr, tested under the lock.
SlotIsEmpty(d) == module_[d] = NullModule

\* A module cache that calls the hook after the if-block, on every call.
AfterCachedSlotRunsHook(hookpc, resolvepc) == hookpc
\* The hook is called inside the if-block: a call that finds the slot populated
\* goes on with the resolution.
AfterCachedSlot(hookpc, resolvepc) == resolvepc

\* if (module_[device_id] == nullptr) CUDA_DRIVER_CALL(cuModuleLoadData(...)):
\* a failed load leaves the slot as it was and throws; the slot is checked
\* under the lock, and a populated slot goes straight to the resolution.
LoadData(t, hookpc, resolvepc) ==
  LET d == dev[t] IN
  /\ mutex_ = t
  /\ IF SlotIsEmpty(d)
       THEN \E result \in DriverResults :
              \/ /\ result = CUDA_SUCCESS
                 /\ module_' = [module_ EXCEPT ![d] = nLoad[d] + 1]
                 /\ nLoad' = [nLoad EXCEPT ![d] = @ + 1]
                 /\ Did(t, "cuModuleLoadData")
                 /\ Goto(t, hookpc)
                 /\ UNCHANGED <<mutex_, wl, ret, out>>
              \/ /\ result # CUDA_SUCCESS
                 /\ Throw(t, "cuModuleLoadData", result, NoDiag)
                 /\ Did(t, "cuModuleLoadData")
                 /\ mutex_' = UnlockOnThrow(t)
                 /\ UNCHANGED <<module_, nLoad>>
       ELSE /\ Goto(t, AfterCachedSlot(hookpc, resolvepc))
            /\ UNCHANGED <<module_, nLoad, mutex_, wl, ret, out, did>>
  /\ UNCHANGED <<modvars, caches, hooked, dev, calls, nResolve,
                 nResolveFail, resolvedFrom, configCalls, memsets>>

\* A hook that does not ask for NVSHMEM's status.
StatusAllowsCumoduleInitAlways(status) == TRUE
\* NVSHMEMXCumoduleInit: the status values under which the module is initialised.
StatusAllowsCumoduleInit(status) ==
  status \in {"IS_INITIALIZED", "LIMITED_MPG", "FULL_MPG"}

\* if (nvshmem_init_hook.has_value()) (*nvshmem_init_hook)(module_[device_id]);
\* the hook is NVSHMEMXCumoduleInit, which skips the module unless NVSHMEM is
\* initialised and throws (ICHECK_EQ) when nvshmemx_cumodule_init fails.
PostLoadHook(t, resolvepc) ==
  LET d == dev[t] IN
  /\ mutex_ = t
  /\ IF hook_registered
       THEN /\ hook_calls' = [hook_calls EXCEPT ![d] = Append(@, module_[d])]
            /\ Did(t, "hook")
            /\ IF StatusAllowsCumoduleInit(nvshmem_status)
                 THEN \E result \in {0, 7} :
                        \/ /\ result = 0
                           /\ nvshmem_modules' = nvshmem_modules \cup {<<d, module_[d]>>}
                           /\ Goto(t, resolvepc)
                           /\ UNCHANGED <<mutex_, wl, ret, out>>
                        \/ /\ result # 0
                           /\ Throw(t, "nvshmemx_cumodule_init", result, NoDiag)
                           /\ mutex_' = UnlockOnThrow(t)
                           /\ UNCHANGED nvshmem_modules
                 ELSE /\ Goto(t, resolvepc)
                      /\ UNCHANGED <<nvshmem_modules, mutex_, wl, ret, out>>
       ELSE /\ Goto(t, resolvepc)
            /\ UNCHANGED <<hooked, mutex_, wl, ret, out, did>>
  /\ UNCHANGED <<modvars, module_, caches, dev, calls, counters>>

GetFuncEnter(t) == pc[t] = "gf_enter" /\ LockGuard(t, "gf_load")
GetFuncLoad(t) == pc[t] = "gf_load" /\ LoadData(t, "gf_hook", "gf_resolve")
GetFuncHook(t) == pc[t] = "gf_hook" /\ PostLoadHook(t, "gf_resolve")

\* cuModuleGetFunction(&func, module_[device_id], func_name): return func, or
\* LOG(FATAL); either way the lock_guard releases mutex_.
GetFuncResolve(t) ==
  LET d == dev[t] IN
  /\ pc[t] = "gf_resolve"
  /\ mutex_ = t
  /\ nResolve' = [nResolve EXCEPT ![d] = @ + 1]
  /\ resolvedFrom' = [resolvedFrom EXCEPT ![d] = @ \cup {module_[d]}]
  /\ Did(t, "cuModuleGetFunction")
  /\ \E result \in DriverResults :
       \/ /\ result = CUDA_SUCCESS
          /\ ret' = [ret EXCEPT ![t] = [NoRet EXCEPT !.func =
                                         DriverFunction(module_[d], func_name_)]]
          /\ Goto(t, "op_store")
          /\ mutex_' = 0
          /\ UNCHANGED <<nResolveFail, wl, out>>
       \/ /\ result # CUDA_SUCCESS
          /\ Throw(t, "cuModuleGetFunction", result, NoDiag)
          /\ mutex_' = UnlockOnThrow(t)
          /\ nResolveFail' = [nResolveFail EXCEPT ![d] = @ + 1]
  /\ UNCHANGED <<modvars, module_, caches, hooked, dev, calls, nLoad,
                 configCalls, memsets>>

GetGlobalEnter(t) == pc[t] = "gg_enter" /\ LockGuard(t, "gg_load")
GetGlobalLoad(t) == pc[t] = "gg_load" /\ LoadData(t, "gg_hook", "gg_resolve")
GetGlobalHook(t) == pc[t] = "gg_hook" /\ PostLoadHook(t, "gg_resolve")

\* cuModuleGetGlobal(&global, &nbytes, module_[device_id], name), then
\* ICHECK_EQ(nbytes, expect_nbytes), then the test of the result. A failed
\* lookup writes neither output: nbytes is then read uninitialised, so the
\* comparison may go either way.
GetGlobalResolve(t) ==
  LET d == dev[t] IN
  /\ pc[t] = "gg_resolve"
  /\ mutex_ = t
  /\ resolvedFrom' = [resolvedFrom EXCEPT ![d] = @ \cup {module_[d]}]
  /\ Did(t, "cuModuleGetGlobal")
  /\ \E result \in DriverResults, nbytes \in {BarrierBytes, 2 * BarrierBytes} :
       IF nbytes # BarrierBytes
         THEN /\ Throw(t, "ICHECK_EQ(nbytes, expect_nbytes)", result, NoDiag)
              /\ mutex_' = UnlockOnThrow(t)
         ELSE IF result # CUDA_SUCCESS
                THEN /\ Throw(t, "cuModuleGetGlobal", result, NoDiag)
                     /\ mutex_' = UnlockOnThrow(t)
                ELSE /\ ret' = [ret EXCEPT ![t] =
                                    [NoRet EXCEPT !.ptr = DriverGlobal(module_[d])]]
                     /\ Goto(t, "pb_store")
                     /\ mutex_' = 0
                     /\ UNCHANGED <<wl, out>>
  /\ UNCHANGED <<modvars, module_, caches, hooked, dev, calls, nLoad,
                 nResolve, nResolveFail, configCalls, memsets>>

\* ------------------------------------------------ CUDAModuleNode::GetSource
GetSource(format) ==
  IF format = fmt_ THEN data_
  ELSE IF cuda_source_ # "" THEN cuda_source_
  ELSE IF fmt_ = "ptx" THEN data_
  ELSE ""

\* ------------------------------------------- CUDAWrappedFunc::operator()
\* cudaGetDevice(&device_id); wl = launch_param_config_.Extract(args).
Invoke(t, workloads) ==
  /\ pc[t] = "idle"
  /\ calls < maxcalls
  /\ calls' = calls + 1
  /\ \E d \in Devices, w \in workloads :
       /\ dev' = [dev EXCEPT ![t] = d]
       /\ wl' = [wl EXCEPT ![t] = w]
  /\ Goto(t, "op_check")
  /\ out' = [out EXCEPT ![t] = NoOut]
  /\ did' = [did EXCEPT ![t] = {}]
  /\ UNCHANGED <<modvars, module_, mutex_, caches, hooked, ret, counters>>

\* A dispatcher that resolves the kernel on every invocation.
KernelNotCachedEver(d) == TRUE
\* fcache_[device_id] == nullptr
KernelNotCached(d) == fcache_[d] = NullFunc

\* A dispatcher that tests dyn_shmem_size on every invocation.
AfterCachedKernelConfigures(dyn_shmem_size) ==
  IF NeedsShmemRaise(dyn_shmem_size) THEN "op_config" ELSE "op_launch"
\* The test of dyn_shmem_size is inside if (fcache_[device_id] == nullptr): an
\* invocation that finds the kernel cached goes on with the launch.
AfterCachedKernel(dyn_shmem_size) == "op_launch"

\* if (fcache_[device_id] == nullptr): read without any lock.
OpCheck(t) ==
  /\ pc[t] = "op_check"
  /\ IF KernelNotCached(dev[t])
       THEN Goto(t, "gf_enter")
       ELSE Goto(t, AfterCachedKernel(wl[t].dyn_shmem_size))
  /\ UNCHANGED <<modvars, module_, mutex_, caches, hooked, dev, wl, ret,
                 out, did, calls, counters>>

\* fcache_[device_id] = <what GetFunc returned>; then the test of dyn_shmem_size.
OpStore(t) ==
  /\ pc[t] = "op_store"
  /\ fcache_' = [fcache_ EXCEPT ![dev[t]] = ret[t].func]
  /\ IF NeedsShmemRaise(wl[t].dyn_shmem_size)
       THEN Goto(t, "op_config")
       ELSE Goto(t, "op_launch")
  /\ UNCHANGED <<modvars, module_, mutex_, pcache_, hooked, dev, wl, ret,
                 out, did, calls, counters>>

\* cuFuncSetAttribute(fcache_[device_id], MAX_DYNAMIC_SHARED_SIZE_BYTES, size).
OpConfig(t) ==
  LET d == dev[t] IN
  /\ pc[t] = "op_config"
  /\ configCalls' = [configCalls EXCEPT ![d] =
                       Append(@, [func |-> fcache_[d], size |-> wl[t].dyn_shmem_size,
                                  by |-> t])]
  /\ Did(t, "cuFuncSetAttribute")
  /\ \E result \in DriverResults :
       \/ /\ result = CUDA_SUCCESS
          /\ Goto(t, "op_launch")
          /\ UNCHANGED <<wl, ret, out>>
       \/ /\ result # CUDA_SUCCESS
          /\ Throw(t, "cuFuncSetAttribute", result, NoDiag)
  /\ UNCHANGED <<modvars, module_, mutex_, caches, hooked, dev, calls,
                 nLoad, nResolve, nResolveFail, resolvedFrom, memsets>>

\* A dispatcher that does not tolerate the teardown code.
LaunchIsFatalNoTeardown(result) == result # CUDA_SUCCESS
\* if (result != CUDA_SUCCESS && result != CUDA_ERROR_DEINITIALIZED)
LaunchIsFatal(result) ==
  result # CUDA_SUCCESS /\ result # CUDA_ERROR_DEINITIALIZED

\* The text streamed into os before LOG(FATAL): the error name, the dims, and,
\* when GetSource("") is not empty, the kernel name and that text.
LaunchDiag(w, result) ==
  LET cuda == GetSource("") IN
  [err |-> result, grid |-> w.grid_dim, block |-> w.block_dim,
   tail |-> IF cuda # ""
              THEN <<"// func_name=", func_name_, "// CUDA Source", cuda>>
              ELSE <<>>]

\* cuLaunchKernel(fcache_[device_id], grid, block, dyn_shmem_size, strm, ...).
OpLaunch(t, results) ==
  /\ pc[t] = "op_launch"
  /\ Did(t, "cuLaunchKernel")
  /\ \E result \in results :
       /\ pc' = [pc EXCEPT ![t] = "idle"]
       /\ out' = [out EXCEPT ![t] =
                    IF LaunchIsFatal(result)
                      THEN [status |-> "fatal", at |-> "cuLaunchKernel",
                            result |-> result, diag |-> LaunchDiag(wl[t], result)]
                      ELSE [status |-> "ok", at |-> "cuLaunchKernel",
                            result |-> result, diag |-> NoDiag]]
  /\ wl' = [wl EXCEPT ![t] = NoWorkLoad]
  /\ UNCHANGED <<modvars, module_, mutex_, caches, hooked, dev, ret,
                 calls, counters>>

\* ------------------------------------- CUDAPrepGlobalBarrier::operator()
PrepInvoke(t) ==
  /\ pc[t] = "idle"
  /\ calls < maxcalls
  /\ calls' = calls + 1
  /\ \E d \in Devices : dev' = [dev EXCEPT ![t] = d]
  /\ wl' = [wl EXCEPT ![t] = NoWorkLoad]
  /\ Goto(t, "pb_check")
  /\ out' = [out EXCEPT ![t] = NoOut]
  /\ did' = [did EXCEPT ![t] = {}]
  /\ UNCHANGED <<modvars, module_, mutex_, caches, hooked, ret, counters>>

\* A primitive that resolves the barrier word on every call.
BarrierNotCachedEver(d) == TRUE
\* pcache_[device_id] == 0
BarrierNotCached(d) == pcache_[d] = NullPtr

\* if (pcache_[device_id] == 0): read without any lock.
PrepCheck(t) ==
  /\ pc[t] = "pb_check"
  /\ IF BarrierNotCached(dev[t])
       THEN Goto(t, "gg_enter")
       ELSE Goto(t, "pb_memset")
  /\ UNCHANGED <<modvars, module_, mutex_, caches, hooked, dev, wl, ret,
                 out, did, calls, counters>>

\* pcache_[device_id] = <what GetGlobal returned>.
PrepStore(t) ==
  /\ pc[t] = "pb_store"
  /\ pcache_' = [pcache_ EXCEPT ![dev[t]] = ret[t].ptr]
  /\ Goto(t, "pb_memset")
  /\ UNCHANGED <<modvars, module_, mutex_, fcache_, hooked, dev, wl, ret,
                 out, did, calls, counters>>

\* CUDA_DRIVER_CALL(cuMemsetD32(pcache_[device_id], 0, 1)).
PrepMemset(t) ==
  /\ pc[t] = "pb_memset"
  /\ Did(t, "cuMemsetD32")
  /\ memsets' = [memsets EXCEPT ![dev[t]] =
                   Append(@, [addr |-> pcache_[dev[t]], by |-> t])]
  /\ \E result \in DriverResults :
       \/ /\ result = CUDA_SUCCESS
          /\ Return(t)
       \/ /\ result # CUDA_SUCCESS
          /\ Throw(t, "cuMemsetD32", result, NoDiag)
  /\ UNCHANGED <<modvars, module_, mutex_, caches, hooked, dev, calls,
                 nLoad, nResolve, nResolveFail, resolvedFrom, configCalls>>

\* ----------------------------------------------------- NVSHMEM bootstrap
\* The variables of the CUDA module, which the bootstrap does not touch
\* (it changes nvshmem_status only).
cudacore == <<data_, fmt_, fmap_, cuda_source_, module_, mutex_, fcache_, pcache_,
              hook_registered, nvshmem_modules, hook_calls, pc, dev, wl, ret, out, did,
              calls,
              maxcalls, nLoad, nResolve, nResolveFail, resolvedFrom, configCalls,
              memsets>>
cudavars == <<cudacore, filevars>>

\* static_cast<char>(int64_t) with a signed 8-bit char: the value modulo 256.
CastChar(x) == ((x + 128) % 256) - 128
\* static_cast<int>(int64_t): the ids drawn here hold versions inside int's
\* range, where the cast keeps the value.
CastInt(x) == x

\* The ids nvshmemx_get_uniqueid hands out: a version and UNIQUEID_PADDING chars.
FabricUids ==
  { [version |-> 1, internal |-> [i \in 1..UNIQUEID_PADDING |-> ((37 * i) % 256) - 128]],
    [version |-> 65537, internal |-> [i \in 1..UNIQUEID_PADDING |-> -i]] }

\* uid_64: the version, then each internal char, widened to int64_t.
EncodeUid(uid) == <<uid.version>> \o uid.internal

\* A decoding that starts the internal chars at the version field.
DecodeUidOffByOne(uid_64) ==
  [version |-> CastInt(uid_64[1]),
   internal |-> [i \in 1..UNIQUEID_PADDING |-> CastChar(uid_64[i])]]
\* uid.version = static_cast<int>(uid_64[0]);
\* uid.internal[i] = static_cast<char>(uid_64[i + 1]) for i < UNIQUEID_PADDING.
DecodeUid(uid_64) ==
  [version |-> CastInt(uid_64[1]),
   internal |-> [i \in 1..UNIQUEID_PADDING |-> CastChar(uid_64[i + 1])]]

\* ids of other lengths and contents that a caller may pass to InitNVSHMEM.
UidInputs ==
  { <<>>,
    [i \in 1..5 |-> i],
    [i \in 1..UNIQUEID_PADDING |-> i],
    [i \in 1..(UNIQUEID_PADDING + 1) |-> 200 + i],
    [i \in 1..(UNIQUEID_PADDING + 2) |-> i] }

\* A length check that only rejects ids that are too short.
UidLengthOkAtLeast(n) == n >= UNIQUEID_PADDING + 1
\* CHECK_EQ(uid_64.size(), UNIQUEID_PADDING + 1)
UidLengthOk(n) == n = UNIQUEID_PADDING + 1

\* A reconciliation that compares the device kind only.
ConsistentWithFabricKindOnly(default_device, mype_node) ==
  default_device.device_type = "kDLCUDA"
\* ICHECK(default_device.device_type == kDLCUDA && default_device.device_id == mype_node)
ConsistentWithFabric(default_device, mype_node) ==
  /\ default_device.device_type = "kDLCUDA"
  /\ default_device.device_id = mype_node

\* worker->default_device.device_type == DLDeviceType::kDLCPU: no default device
\* has been declared.
DefaultDeviceUnset(default_device) == default_device.device_type = "kDLCPU"

Ev(op, a) == [op |-> op, a |-> a]

\* InitNVSHMEMUID: nvshmemx_get_uniqueid, returned as a Shape of int64_t.
InitNVSHMEMUID ==
  /\ boot_pc = "idle"
  /\ uid_minted = <<>>
  /\ \E uid \in FabricUids : uid_minted' = EncodeUid(uid)
  /\ UNCHANGED <<cudavars, nvshmem_status, worker, cur_device, fabric_join, boot_pc,
                 boot_args, boot_local, boot_out, boot_log, joins>>

\* A rank that leaves out worker_id_start.
GlobalRankLocalOnly(w, worker_id_start) ==
  IF ~w.present THEN 0 ELSE w.worker_id
\* worker_id = worker_id_start, plus worker->worker_id when there is a worker.
GlobalRank(w, worker_id_start) ==
  IF ~w.present THEN worker_id_start ELSE worker_id_start + w.worker_id

\* InitNVSHMEM up to the decoding of the id: the rank, the length check, the
\* casts. Nothing outside the call's locals is written. The caller passes the
\* minted id or one of uids, and one of starts as worker_id_start.
BootEnter(uids, starts) ==
  /\ boot_pc = "idle"
  /\ joins < MaxJoins
  /\ joins' = joins + 1
  /\ \E uid_64 \in uids \cup (IF uid_minted # <<>> THEN {uid_minted} ELSE {}),
        num_workers \in {2}, worker_id_start \in starts :
       LET worker_id == GlobalRank(worker, worker_id_start) IN
       /\ boot_args' = [uid_64 |-> uid_64, num_workers |-> num_workers,
                        worker_id_start |-> worker_id_start]
       /\ IF UidLengthOk(Len(uid_64))
            THEN /\ boot_local' = [worker_id |-> worker_id, uid |-> DecodeUid(uid_64),
                                   mype_node |-> -1]
                 /\ boot_pc' = "set_device"
                 /\ boot_out' = NoBootOut
            ELSE /\ boot_local' = NoBootLocal
                 /\ boot_pc' = "idle"
                 /\ boot_out' = [status |-> "fatal", at |-> "CHECK_EQ(uid_64.size())"]
  /\ UNCHANGED <<cudavars, nvshmem_status, worker, cur_device, uid_minted,
                 fabric_join, boot_log>>

\* cudaSetDevice(worker_id), its result not looked at: an index that names no
\* device leaves the active device as it was.
BootSetDevice ==
  /\ boot_pc = "set_device"
  /\ cur_device' = IF boot_local.worker_id \in Devices
                     THEN boot_local.worker_id
                     ELSE cur_device
  /\ boot_log' = Append(boot_log, Ev("cudaSetDevice", boot_local.worker_id))
  /\ boot_pc' = "join"
  /\ UNCHANGED <<cudavars, nvshmem_status, worker, uid_minted, fabric_join,
                 boot_args, boot_local, boot_out, joins>>

\* nvshmemx_set_attr_uniqueid_args(worker_id, num_workers, &uid, &attr);
\* nvshmemx_init_attr(NVSHMEMX_INIT_WITH_UNIQUEID, &attr).
BootJoin ==
  /\ boot_pc = "join"
  /\ fabric_join' = Append(fabric_join,
                           [rank |-> boot_local.worker_id,
                            count |-> boot_args.num_workers,
                            uid |-> boot_local.uid])
  /\ nvshmem_status' = "IS_INITIALIZED"
  /\ boot_log' = Append(boot_log, Ev("nvshmemx_init_attr", boot_local.worker_id))
  /\ boot_pc' = "query"
  /\ UNCHANGED <<cudavars, worker, cur_device, uid_minted, boot_args, boot_local,
                 boot_out, joins>>

\* mype_node = nvshmem_team_my_pe(NVSHMEMX_TEAM_NODE);
\* CUDA_CALL(cudaSetDevice(mype_node)).
BootQuery ==
  /\ boot_pc = "query"
  /\ \E mype_node \in Devices, result \in DriverResults :
       /\ boot_local' = [boot_local EXCEPT !.mype_node = mype_node]
       /\ boot_log' = Append(boot_log, Ev("cudaSetDevice", mype_node))
       /\ \/ /\ result = CUDA_SUCCESS
             /\ cur_device' = mype_node
             /\ boot_pc' = "reconcile"
             /\ UNCHANGED boot_out
          \/ /\ result # CUDA_SUCCESS
             /\ boot_pc' = "idle"
             /\ boot_out' = [status |-> "fatal", at |-> "cudaSetDevice(mype_node)"]
             /\ UNCHANGED cur_device
  /\ UNCHANGED <<cudavars, nvshmem_status, worker, uid_minted, fabric_join,
                 boot_args, joins>>

\* if (worker != nullptr): take the fabric's device as the default device when
\* none is declared, else ICHECK that the declared one is the fabric's device;
\* then LOG_INFO << "NVSHMEM init finished".
BootReconcile ==
  LET fabric_device == Device("kDLCUDA", boot_local.mype_node)
      finished == Ev("LOG_INFO", boot_local.mype_node)
  IN
  /\ boot_pc = "reconcile"
  /\ boot_pc' = "idle"
  /\ IF worker.present
       THEN IF DefaultDeviceUnset(worker.default_device)
              THEN /\ worker' = [worker EXCEPT !.default_device = fabric_device]
                   /\ boot_out' = [status |-> "ok", at |-> "default device set"]
                   /\ boot_log' = boot_log \o
                        <<Ev("default_device=", boot_local.mype_node), finished>>
              ELSE /\ UNCHANGED worker
                   /\ IF ConsistentWithFabric(worker.default_device,
                                              boot_local.mype_node)
                        THEN /\ boot_out' = [status |-> "ok",
                                             at |-> "default device kept"]
                             /\ boot_log' = Append(boot_log, finished)
                        ELSE /\ boot_out' = [status |-> "fatal",
                                             at |-> "ICHECK(default_device)"]
                             /\ UNCHANGED boot_log
       ELSE /\ UNCHANGED worker
            /\ boot_out' = [status |-> "ok", at |-> "no worker"]
            /\ boot_log' = Append(boot_log, finished)
  /\ UNCHANGED <<cudavars, nvshmem_status, cur_device, uid_minted, fabric_join,
                 boot_args, boot_local, joins>>

\* ------------------------------------------------------- save and load
\* A save that writes the blob whatever format is asked for.
SaveFormatAcceptedAlways(fmt) == TRUE
\* ICHECK_EQ(fmt, fmt_)
SaveFormatAccepted(fmt) == fmt = fmt_

\* ICHECK_NE(cuda_source_.length(), 0)
SourceRetained == cuda_source_ # ""

FsEntry(op, file_name, format, fmt, status, module) ==
  [op |-> op, file_name |-> file_name, format |-> format, fmt |-> fmt,
   status |-> status, module |-> module]

\* CUDAModuleNode::SaveToFile(file_name, format): the source under "cu", else
\* the blob, and that only under the module's own format; the metadata file
\* is written first.
SaveToFile ==
  /\ Len(fs_log) < MaxFileOps
  /\ \E file_name \in FileNames, format \in FormatHints :
       LET fmt == GetFileFormat(file_name, format)
           meta_file == GetMetaFilePath(file_name)
           ok == IF fmt = "cu" THEN SourceRetained ELSE SaveFormatAccepted(fmt)
           payload == IF fmt = "cu" THEN cuda_source_ ELSE data_
       IN
       /\ files' = IF ok
                     THEN [files EXCEPT ![meta_file] = MetaFile(fmap_),
                                        ![file_name] = BinaryFile(payload)]
                     ELSE files
       /\ fs_log' = Append(fs_log,
                           FsEntry("save", file_name, format, fmt,
                                   IF ok THEN "ok" ELSE "fatal", NoModule))
  /\ UNCHANGED <<cudacore, nvshmem_status, bootvars>>

\* A loader that takes the format argument for the format.
LoadFileFormatHintOnly(file_name, format) == format
\* std::string fmt = GetFileFormat(file_name, format)
LoadFileFormat(file_name, format) == GetFileFormat(file_name, format)

\* CUDAModuleLoadFile(file_name, format): the file's bytes, the metadata file's
\* map, the format, and no source text; a file that is not there is fatal.
CUDAModuleLoadFile ==
  /\ Len(fs_log) < MaxFileOps
  /\ \E file_name \in FileNames, format \in FormatHints :
       LET fmt == LoadFileFormat(file_name, format)
           meta_file == GetMetaFilePath(file_name)
           ok == files[file_name].kind # "none" /\ files[meta_file].kind = "meta"
       IN
       fs_log' = Append(fs_log,
                        FsEntry("load", file_name, format, fmt,
                                IF ok THEN "ok" ELSE "fatal",
                                IF ok
                                  THEN [data |-> files[file_name].bytes,
                                        fmt |-> fmt,
                                        fmap |-> files[meta_file].func_info,
                                        cuda_source |-> ""]
                                  ELSE NoModule))
  /\ UNCHANGED <<files, cudacore, nvshmem_status, bootvars>>

\* ------------------------------------------------------------ specifications
Step(t, workloads, results) ==
  \/ Invoke(t, workloads) \/ OpCheck(t) \/ OpStore(t) \/ OpConfig(t)
  \/ OpLaunch(t, results)
  \/ GetFuncEnter(t) \/ GetFuncLoad(t) \/ GetFuncHook(t) \/ GetFuncResolve(t)
  \/ PrepInvoke(t) \/ PrepCheck(t) \/ PrepStore(t) \/ PrepMemset(t)
  \/ GetGlobalEnter(t) \/ GetGlobalLoad(t) \/ GetGlobalHook(t) \/ GetGlobalResolve(t)

Next == \E t \in Threads : Step(t, RaceWorkLoads, RaceLaunchResults)
Spec == Init /\ [][Next]_vars

\* The positions inside GetFunc and GetGlobal, and those that hold mutex_.
CachePcs == {"gf_enter", "gf_load", "gf_hook", "gf_resolve",
             "gg_enter", "gg_load", "gg_hook", "gg_resolve"}
LockedPcs == CachePcs \ {"gf_enter", "gg_enter"}

\* The steps a thread takes while it holds mutex_: each is one driver call or
\* one hook invocation, which terminates.
Critical(t) ==
  \/ GetFuncLoad(t) \/ GetFuncHook(t) \/ GetFuncResolve(t)
  \/ GetGlobalLoad(t) \/ GetGlobalHook(t) \/ GetGlobalResolve(t)

\* The concurrent machine with a hook that can fail, under the scheduling the
\* module cache relies on: a thread inside the critical section goes on, and a
\* thread waiting for mutex_ gets it if it is free again and again.
InitLive ==
  /\ InitModule(RaceModuleConfigs) /\ InitThreads({<<TRUE, "IS_INITIALIZED">>})
  /\ maxcalls = MaxLiveCalls
  /\ InitNoBoot /\ InitNoFiles
\* Every invocation asks for the ceiling to be raised, and every launch succeeds.
NextLive ==
  \E t \in Threads :
    Step(t, {w \in WorkLoads : w.dyn_shmem_size > ShmemThreshold}, {CUDA_SUCCESS})
SpecLive ==
  /\ InitLive /\ [][NextLive]_vars
  /\ \A t \in Threads :
       /\ WF_vars(Critical(t))
       /\ SF_vars(GetFuncEnter(t))
       /\ SF_vars(GetGlobalEnter(t))

\* One host thread: every invocation ends before the next one starts.
NextSeq == Step(1, WorkLoads, LaunchResults)
SpecSeq == InitSeq /\ [][NextSeq]_vars

\* One worker process: its context, no id minted, no join made.
InitBoot ==
  /\ InitModule(RaceModuleConfigs) /\ InitThreads({<<TRUE, "NOT_INITIALIZED">>})
  /\ maxcalls = 0
  /\ worker \in WorkerContexts
  /\ cur_device = NoDevice
  /\ uid_minted = <<>>
  /\ fabric_join = <<>>
  /\ boot_pc = "idle"
  /\ boot_args = NoBootArgs
  /\ boot_local = NoBootLocal
  /\ boot_out = NoBootOut
  /\ boot_log = <<>>
  /\ joins = 0
  /\ InitNoFiles

NextBoot ==
  \/ InitNVSHMEMUID \/ BootEnter(UidInputs, {0, 1}) \/ BootSetDevice \/ BootJoin \/ BootQuery
  \/ BootReconcile
SpecBoot == InitBoot /\ [][NextBoot]_vars

\* One host thread using the module while the process joins the NVSHMEM team:
\* the hook is registered, NVSHMEM is not initialised at the start, and loads
\* may come before, between and after the steps of the join.
InitJoin ==
  /\ InitModule(RaceModuleConfigs) /\ InitThreads({<<TRUE, "NOT_INITIALIZED">>})
  /\ maxcalls = MaxJoinCalls
  /\ InitNoBoot /\ InitNoFiles
\* The one bootstrap session of the process: InitNVSHMEM is called once, with
\* the minted id.
JoinOnce == joins = 0 /\ BootEnter({}, {0})
NextJoin ==
  \/ Step(1, {w \in WorkLoads : w.dyn_shmem_size > ShmemThreshold}, {CUDA_SUCCESS})
  \/ InitNVSHMEMUID \/ JoinOnce \/ BootSetDevice \/ BootJoin \/ BootQuery
  \/ BootReconcile
SpecJoin == InitJoin /\ [][NextJoin]_vars

\* One module of any configuration; the directory is empty, or holds what an
\* earlier module left under the same names.
InitFile ==
  /\ InitModule(ModuleConfigs) /\ InitThreads({<<FALSE, "NOT_INITIALIZED">>})
  /\ maxcalls = 0
  /\ InitNoBoot
  /\ files \in { [p \in AllPaths |-> NoFile],
                 [p \in AllPaths |-> IF p \in FileNames THEN StaleBinary
                                                        ELSE StaleMeta] }
  /\ fs_log = <<>>

NextFile == SaveToFile \/ CUDAModuleLoadFile
SpecFile == InitFile /\ [][NextFile]_vars

\* ------------------------------------------------------------------ claims
\* The cuFuncSetAttribute calls made for device d with a size above 48 KiB.
RaisesAbove(d) ==
  {i \in DOMAIN configCalls[d] : configCalls[d][i].size > ShmemThreshold}

\* C1: whatever the mix and interleaving of GetFunc and GetGlobal callers, the
\* blob is loaded into a device at most once, and exactly once as soon as the
\* slot is populated or a symbol was resolved; a populated slot never changes;
\* and every resolution on the device goes against the handle in the slot.
C1_LoadedOncePerDevice ==
  /\ [](\A d \in Devices :
          /\ nLoad[d] <= 1
          /\ (module_[d] = NullModule) <=> (nLoad[d] = 0)
          /\ resolvedFrom[d] \subseteq ({module_[d]} \ {NullModule}))
  /\ [][\A d \in Devices :
          module_[d] # NullModule => module_'[d] = module_[d]]_vars

\* C1's case: a GetFunc caller and a GetGlobal caller have both come out of the
\* module cache for the same device, which was loaded once.
C1_Witness ==
  /\ pc[1] = "op_store"
  /\ pc[2] = "pb_store"
  /\ dev[1] = dev[2]
  /\ nLoad[dev[1]] = 1
  /\ resolvedFrom[dev[1]] = {module_[dev[1]]}

\* C2: for one dispatcher and one device, the shared-memory ceiling is
\* configured at most once, also when threads race on the empty cache slot
\* with sizes above the threshold.
C2_ConfiguredAtMostOnce ==
  \A d \in Devices : Cardinality(RaisesAbove(d)) <= 1

C4_RaisedOnlyAboveThreshold ==
  /\ \A d \in Devices : \A i \in DOMAIN configCalls[d] :
       configCalls[d][i].size > 49152
  /\ \A t \in Threads :
       (pc[t] = "op_launch" /\ "cuModuleGetFunction" \in did[t]) =>
         (("cuFuncSetAttribute" \in did[t]) <=> (wl[t].dyn_shmem_size > 49152))

\* C5: a launch returns normally exactly when cuLaunchKernel returned success
\* or the teardown code; every other result is fatal.
C5_LaunchResultHandling ==
  \A t \in Threads :
    out[t].at = "cuLaunchKernel" =>
      /\ out[t].status \in {"ok", "fatal"}
      /\ (out[t].status = "ok") <=>
           (out[t].result \in {CUDA_SUCCESS, CUDA_ERROR_DEINITIALIZED})

\* C5's case: a launch that met the teardown code has returned normally.
C5_Witness ==
  /\ out[1].at = "cuLaunchKernel"
  /\ out[1].result = CUDA_ERROR_DEINITIALIZED
  /\ out[1].status = "ok"
  /\ pc[1] = "idle"

\* The elements of a sequence.
Range(s) == {s[i] : i \in DOMAIN s}

\* C6: the diagnostic of a fatal launch always holds the kernel name and the
\* resolved grid and block dims, whether or not source text was retained, and
\* holds the source text when source text was retained at construction.
C6_DiagnosticNamesKernel ==
  \A t \in Threads :
    (out[t].at = "cuLaunchKernel" /\ out[t].status = "fatal") =>
      /\ func_name_ \in Range(out[t].diag.tail)
      /\ Len(out[t].diag.grid) = 3
      /\ Len(out[t].diag.block) = 3
      /\ (cuda_source_ # "") => (cuda_source_ \in Range(out[t].diag.tail))

\* C7: InitNVSHMEM fails exactly when the id's length is not
\* UNIQUEID_PADDING + 1, and the failing call has then bound nothing: the
\* active device, the joins made, the fabric's status and the worker's default
\* device are what they were, and no device or fabric call was made.
C7_BadLengthBindsNothing ==
  /\ [](boot_pc # "idle" => Len(boot_args.uid_64) = UNIQUEID_PADDING + 1)
  /\ [][joins' = joins + 1 =>
          /\ (boot_out'.status = "fatal") <=>
               (Len(boot_args'.uid_64) # UNIQUEID_PADDING + 1)
          /\ (Len(boot_args'.uid_64) # UNIQUEID_PADDING + 1) =>
               /\ boot_out'.at = "CHECK_EQ(uid_64.size())"
               /\ boot_pc' = "idle"
               /\ cur_device' = cur_device
               /\ fabric_join' = fabric_join
               /\ nvshmem_status' = nvshmem_status
               /\ worker' = worker
               /\ boot_log' = boot_log]_vars

\* C7's case: a join with an id of 5 elements has failed in a worker context,
\* before any device was activated or any join made.
C7_Witness ==
  /\ boot_out.status = "fatal"
  /\ boot_out.at = "CHECK_EQ(uid_64.size())"
  /\ Len(boot_args.uid_64) = 5
  /\ worker.present
  /\ cur_device = NoDevice
  /\ fabric_join = <<>>

\* C8: with a default device declared (its kind is not kDLCPU, the kind of an
\* undeclared one), the join succeeds and keeps it when it is the fabric's
\* device in kind and index, and fails and keeps it when it differs in either;
\* with none declared the fabric's device becomes the default; and the default
\* device is written in no other step.
C8_ReconcileDefaultDevice ==
  /\ [][(boot_pc = "reconcile" /\ worker.present) =>
          LET fabric_device == Device("kDLCUDA", boot_local.mype_node)
              declared == worker.default_device
          IN
          /\ (declared.device_type # "kDLCPU" /\ declared = fabric_device) =>
               (boot_out'.status = "ok" /\ worker' = worker)
          /\ (declared.device_type # "kDLCPU" /\ declared # fabric_device) =>
               (boot_out'.status = "fatal" /\ worker' = worker)
          /\ (declared.device_type = "kDLCPU") =>
               /\ boot_out'.status = "ok"
               /\ worker' = [worker EXCEPT !.default_device = fabric_device]]_vars
  /\ [][worker' # worker =>
          (boot_pc = "reconcile" /\ worker.default_device.device_type = "kDLCPU")]_vars

\* C8's case: a worker that declared CUDA device 1 was assigned device 0 by the
\* fabric; the join failed and the default device is still CUDA device 1.
C8_Witness ==
  /\ boot_out.status = "fatal"
  /\ boot_out.at = "ICHECK(default_device)"
  /\ worker.default_device = Device("kDLCUDA", 1)
  /\ boot_local.mype_node = 0

\* The save at position i of the log was in the module's own, native format.
NativeSave(i) ==
  /\ fs_log[i].op = "save" /\ fs_log[i].status = "ok"
  /\ fs_log[i].fmt = fmt_ /\ fs_log[i].fmt # "cu"

\* The call at position i + 1 loads the path the call at position i saved.
LoadsWhatWasSaved(i) ==
  /\ i + 1 \in DOMAIN fs_log
  /\ fs_log[i + 1].op = "load"
  /\ fs_log[i + 1].file_name = fs_log[i].file_name

Requested(e) == GetFileFormat(e.file_name, e.format)

\* C10: SaveToFile fails, and writes neither the metadata file nor the primary
\* file, when the source format is requested and no source text was retained,
\* or when a non-source format other than the module's own is requested; in
\* every other case it writes both the metadata file and the primary file.
C10_SaveFailsOrWritesBoth ==
  [][(Len(fs_log') = Len(fs_log) + 1 /\ fs_log'[Len(fs_log')].op = "save") =>
       LET e == fs_log'[Len(fs_log')]
           mustFail == \/ Requested(e) = "cu" /\ cuda_source_ = ""
                       \/ Requested(e) # "cu" /\ Requested(e) # fmt_
       IN
       /\ (e.status = "fatal") <=> mustFail
       /\ mustFail => files' = files
       /\ ~mustFail =>
            /\ files'[GetMetaFilePath(e.file_name)] = MetaFile(fmap_)
            /\ files'[e.file_name] =
                 BinaryFile(IF Requested(e) = "cu" THEN cuda_source_ ELSE data_)
            /\ \A p \in AllPaths \ {e.file_name, GetMetaFilePath(e.file_name)} :
                 files'[p] = files[p]]_vars

\* A save in the source format failed, then a save in another module format
\* failed, and the directory is still empty.
C10_Witness ==
  /\ Len(fs_log) = 2
  /\ fs_log[1].op = "save" /\ fs_log[1].fmt = "cu" /\ fs_log[1].status = "fatal"
  /\ fs_log[2].op = "save" /\ fs_log[2].fmt \notin {"cu", fmt_}
  /\ fs_log[2].status = "fatal"
  /\ cuda_source_ = ""
  /\ \A p \in AllPaths : files[p] = NoFile

\* A save in the module's own format wrote both files.
C10_WitnessWritten ==
  /\ Len(fs_log) = 1 /\ NativeSave(1)
  /\ files[fs_log[1].file_name] = BinaryFile(data_)
  /\ files[GetMetaFilePath(fs_log[1].file_name)] = MetaFile(fmap_)

\* C11: with terminating driver calls and hooks and a fairly scheduled lock,
\* every GetFunc and GetGlobal call returns or fails, also while another thread
\* loads or resolves on another device: mutex_ is held exactly by the thread
\* inside the load/resolve section, hence free after every return and every
\* failure, and a caller waits for nothing but mutex_.
C11_CacheCallsTerminate ==
  /\ [](\A t \in Threads : (mutex_ = t) <=> (pc[t] \in LockedPcs))
  /\ [](mutex_ \in {0} \cup Threads)
  /\ \A t \in Threads : (pc[t] \in CachePcs) ~> (pc[t] \notin CachePcs)

\* C11's case: a caller for one device waits for mutex_ while the other thread
\* is loading the blob into another device.
C11_Witness ==
  /\ pc[1] = "gg_enter" /\ pc[2] = "gf_load"
  /\ dev[1] # dev[2]
  /\ mutex_ = 2
  /\ module_[dev[2]] = NullModule

\* A bootstrap-join of this process has run to its end: it is Reconciled.
Reconciled == \E i \in DOMAIN boot_log : boot_log[i].op = "LOG_INFO"

\* C12: over any sequence of InitNVSHMEM calls in one process the worker's
\* default device is written at most once, and once a call has reached
\* Reconciled no later call changes the default device, joins the fabric
\* again or moves the active device: Reconciled is terminal.
C12_ReconciledIsTerminal ==
  /\ [](Cardinality({i \in DOMAIN boot_log : boot_log[i].op = "default_device="}) <= 1)
  /\ [][Reconciled =>
          /\ worker' = worker
          /\ fabric_join' = fabric_join
          /\ cur_device' = cur_device]_vars

\* rankOffset + the local worker rank of the call under way or just ended.
Rank ==
  boot_args.worker_id_start + (IF worker.present THEN worker.worker_id ELSE 0)

C14_MintedIdRoundTrip ==
  /\ [](uid_minted # <<>> =>
          /\ Len(uid_minted) = 1 + UNIQUEID_PADDING
          /\ \E u \in FabricUids :
               /\ uid_minted[1] = u.version
               /\ \A i \in 1..UNIQUEID_PADDING : uid_minted[i + 1] = u.internal[i])
  /\ [][(joins' = joins + 1 /\ uid_minted # <<>> /\ boot_args'.uid_64 = uid_minted) =>
          boot_out'.status # "fatal"]_vars
  /\ [][(fabric_join' # fabric_join /\ boot_args.uid_64 = uid_minted) =>
          \E u \in FabricUids :
            /\ uid_minted[1] = u.version
            /\ \A i \in 1..UNIQUEID_PADDING : uid_minted[i + 1] = u.internal[i]
            /\ fabric_join'[Len(fabric_join')].uid = u]_vars

\* C14's case: the process joined with the id it minted, whose internal chars
\* are all negative.
C14_Witness ==
  /\ fabric_join # <<>>
  /\ boot_args.uid_64 = uid_minted
  /\ fabric_join[Len(fabric_join)].uid.version = 65537
  /\ \A i \in 1..UNIQUEID_PADDING : fabric_join[Len(fabric_join)].uid.internal[i] = -i

\* C15: a registered post-load hook is called exactly once for each module
\* handle that is loaded, with that handle, by the thread that loaded it and
\* still holds mutex_, before any symbol is resolved from the handle, whether
\* GetFunc or GetGlobal did the load; it is never called by a call that found
\* the slot populated, and never when no hook is registered.
C15_HookOncePerLoadedHandle ==
  /\ [](\A d \in Devices :
          /\ ~hook_registered => hook_calls[d] = <<>>
          /\ hook_registered =>
               /\ Len(hook_calls[d]) <= 1
               /\ resolvedFrom[d] # {} => hook_calls[d] = <<module_[d]>>
               /\ (module_[d] # NullModule /\ hook_calls[d] = <<>>) =>
                    \E t \in Threads :
                      /\ pc[t] \in {"gf_hook", "gg_hook"}
                      /\ dev[t] = d /\ mutex_ = t)
  /\ [][\A d \in Devices :
          hook_calls'[d] # hook_calls[d] =>
            \E t \in Threads :
              /\ mutex_ = t /\ dev[t] = d
              /\ pc[t] \in {"gf_hook", "gg_hook"}
              /\ "cuModuleLoadData" \in did[t]
              /\ module_[d] # NullModule
              /\ resolvedFrom[d] = {}
              /\ hook_calls'[d] = <<module_[d]>>]_vars

\* C15's case: GetGlobal loaded device 1 and called the hook with the new
\* handle, device 0 was loaded and hooked earlier, and the other thread's
\* GetFunc call has found the slot of device 0 populated.
C15_Witness ==
  /\ hook_registered
  /\ pc[1] = "gg_resolve" /\ dev[1] = 1 /\ "hook" \in did[1]
  /\ hook_calls[0] = <<module_[0]>> /\ hook_calls[1] = <<module_[1]>>
  /\ module_[0] # NullModule
  /\ pc[2] = "op_store" /\ dev[2] = 0 /\ "cuModuleLoadData" \notin did[2]

\* C16: under every interleaving of CUDAPrepGlobalBarrier calls, a call that
\* returns has issued one cuMemsetD32, every cuMemsetD32 for a device goes to
\* the address of the barrier word of the device's one module handle, every
\* value stored into pcache_[d] is that address, a non-zero pcache_[d] never
\* changes, and a call that finds pcache_[d] non-zero resolves nothing (so a
\* sequential run resolves on the first call only).
C16_BarrierPrepareIdempotent ==
  /\ [](\A d \in Devices : \A i \in DOMAIN memsets[d] :
          /\ module_[d] # NullModule
          /\ memsets[d][i].addr = DriverGlobal(module_[d])
          /\ memsets[d][i].addr = pcache_[d])
  /\ [](\A t \in Threads :
          /\ pc[t] = "pb_store" =>
               /\ ret[t].ptr = DriverGlobal(module_[dev[t]])
               /\ ret[t].ptr # NullPtr
               /\ pcache_[dev[t]] \in {NullPtr, ret[t].ptr}
          /\ "cuMemsetD32" \in did[t] => pc[t] = "idle"
          /\ (pc[t] = "idle" /\ out[t].status = "ok" /\ out[t].at = "") =>
               "cuMemsetD32" \in did[t])
  /\ [][\A d \in Devices :
          /\ pcache_[d] # NullPtr => pcache_'[d] = pcache_[d]
          /\ Len(memsets'[d]) <= Len(memsets[d]) + 1]_vars
  /\ [][\A t \in Threads :
          (pc[t] = "pb_check" /\ pcache_[dev[t]] # NullPtr) =>
            pc'[t] \in {"pb_check", "pb_memset"}]_vars

\* C16's case: two threads prepared the barrier of one device at the same
\* time, both resolved the address, and both zero-filled the same word.
C16_Witness ==
  /\ \E d \in Devices :
       /\ Len(memsets[d]) = 2
       /\ memsets[d][1].by # memsets[d][2].by
       /\ memsets[d][1].addr = memsets[d][2].addr
       /\ pcache_[d] = memsets[d][1].addr
  /\ \A t \in Threads :
       /\ pc[t] = "idle"
       /\ {"cuModuleGetGlobal", "cuMemsetD32"} \subseteq did[t]

\* C17: GetGlobal fails with the driver's error when cuModuleGetGlobal itself
\* fails, fails with the size mismatch only when the lookup succeeded and
\* reported another size, and hands back the address only when the lookup
\* succeeded with the expected size: the size is never compared when the
\* driver reported none.
C17_GlobalLookupFailureKinds ==
  \A t \in Threads :
    /\ (out[t].status = "fatal" /\ out[t].at = "ICHECK_EQ(nbytes, expect_nbytes)") =>
         out[t].result = CUDA_SUCCESS
    /\ (out[t].status = "fatal" /\ out[t].at = "cuModuleGetGlobal") =>
         out[t].result # CUDA_SUCCESS
    /\ pc[t] = "pb_store" => ret[t].ptr = DriverGlobal(module_[dev[t]])

\* C18: first call wins: an invocation that finds a kernel handle cached for
\* its device goes straight to the launch, whatever size it asks for, and only
\* an invocation that resolved the kernel itself ever calls
\* cuFuncSetAttribute; so after a first invocation below the threshold a later
\* one above it is launched with the ceiling never raised.
C18_FirstCallWins ==
  /\ [][\A t \in Threads :
          (pc[t] = "op_check" /\ fcache_[dev[t]] # NullFunc) =>
            pc'[t] \in {"op_check", "op_launch"}]_vars
  /\ [][\A d \in Devices :
          configCalls'[d] # configCalls[d] =>
            \E t \in Threads :
              /\ dev[t] = d /\ pc[t] = "op_config"
              /\ "cuModuleGetFunction" \in did[t]]_vars
  /\ [](\A t \in Threads :
          (pc[t] = "op_launch" /\ "cuModuleGetFunction" \notin did[t]) =>
            /\ "cuFuncSetAttribute" \notin did[t]
            /\ fcache_[dev[t]] # NullFunc)

\* C18's case: the kernel was cached by an invocation below the threshold, and
\* a later invocation asking for 49153 bytes is about to launch with no
\* cuFuncSetAttribute call ever made for the device.
C18_Witness ==
  /\ pc[1] = "op_launch" /\ pc[2] = "idle"
  /\ did[1] = {}
  /\ wl[1].dyn_shmem_size > ShmemThreshold
  /\ fcache_[dev[1]] # NullFunc
  /\ configCalls[dev[1]] = <<>>

\* The handle in the slot of device d has gone past the hook without being
\* handed to nvshmemx_cumodule_init.
LoadedUninitialised(d) ==
  /\ module_[d] # NullModule
  /\ <<d, module_[d]>> \notin nvshmem_modules
  /\ \A t \in Threads : ~(pc[t] \in {"gf_hook", "gg_hook"} /\ dev[t] = d)

\* C19: a module handle is handed to nvshmemx_cumodule_init only by the call
\* that has just loaded it, and only if NVSHMEM reports itself initialised at
\* that moment; a handle loaded before InitNVSHMEM has joined is never
\* initialised afterwards, whatever is called later.
C19_FabricInitOnlyAtLoad ==
  /\ [][nvshmem_modules' # nvshmem_modules =>
          \E t \in Threads :
            /\ pc[t] \in {"gf_hook", "gg_hook"}
            /\ mutex_ = t
            /\ "cuModuleLoadData" \in did[t]
            /\ nvshmem_status \in {"IS_INITIALIZED", "LIMITED_MPG", "FULL_MPG"}
            /\ nvshmem_modules' = nvshmem_modules \cup {<<dev[t], module_[dev[t]]>>}]_vars
  /\ [][\A d \in Devices :
          LoadedUninitialised(d) =>
            (module_'[d] = module_[d] /\ LoadedUninitialised(d)')]_vars

\* C19's case: device 0 was loaded, and the hook called, before the join; the
\* join has completed, a later invocation on device 0 has found the kernel
\* cached, and the handle is still not initialised for NVSHMEM.
C19_Witness ==
  /\ nvshmem_status = "IS_INITIALIZED"
  /\ boot_pc = "idle" /\ boot_out.status = "ok"
  /\ LoadedUninitialised(0)
  /\ hook_calls[0] = <<module_[0]>>
  /\ nvshmem_modules = {}
  /\ pc[1] = "op_launch" /\ dev[1] = 0 /\ did[1] = {}

\* C20: with a hook registered and NVSHMEM initialised, every module handle a
\* symbol was resolved from has had nvshmemx_cumodule_init succeed on it, and a
\* call the hook throws out of leaves the slot of its device empty and mutex_
\* free, so that the next call for the device loads and hooks again.
C20_HookCompletedBeforeResolution ==
  /\ []((hook_registered /\ StatusAllowsCumoduleInit(nvshmem_status)) =>
          \A d \in Devices : \A h \in resolvedFrom[d] : <<d, h>> \in nvshmem_modules)
  /\ [][\A t \in Threads :
          (pc[t] \in {"gf_hook", "gg_hook"} /\ pc'[t] = "idle") =>
            (module_'[dev[t]] = NullModule /\ mutex_' = 0)]_vars

\* C21: a kernel handle stays in fcache_ only if the configuration of its
\* first resolution completed: an invocation that the rejected
\* cuFuncSetAttribute throws out of leaves the slot of its device empty, so
\* that the next invocation on the device resolves and raises again.
C21_RejectedRaiseLeavesSlotEmpty ==
  [][\A t \in Threads :
       (pc[t] = "op_config" /\ pc'[t] = "idle") =>
         fcache_'[dev[t]] = NullFunc]_vars

====
